---------------------------- MODULE Spec2Model ----------------------------
(* Model of hvc.features.extract.from_file: the feature assembly loop that *)
(* builds the feature matrix, the label list and the feature index of one  *)
(* segmented birdsong recording.                                            *)
EXTENDS Integers, Sequences, FiniteSets, TLC

(***************************************************************************)
(* Bounds of the model.                                                    *)
(***************************************************************************)
MaxSegs == 2

MaxFeatures == 3

SpectrumWidth == 2

(***************************************************************************)
(* Inputs: label characters, labels_to_use strings (sequences of           *)
(* characters) and the feature names a request is drawn from.              *)
(***************************************************************************)
LabelChars == {"a", "b"}

ALL == <<"a", "l", "l">>

LabelsToUseChoices == {<<"a">>, <<"b">>, <<"a", "b">>, ALL}

single_syl_features_switch_case_dict == {"duration", "mean spectrum"}

multiple_syl_features_switch_case_dict == {"duration group"}

FeatureNames ==
    single_syl_features_switch_case_dict
        \cup multiple_syl_features_switch_case_dict \cup {"bogus"}

SeqsUpTo(S, n) == UNION {[1..k -> S] : k \in 0..n}

(***************************************************************************)
(* Values and numpy arrays.  A value is a tuple naming the feature, the    *)
(* segment and the column it was computed for; NaN is its own tuple.       *)
(* An array is a record: ndim 0 is a name that is not bound, ndim 1 holds  *)
(* a sequence of values, ndim 2 a sequence of rows.                        *)
(***************************************************************************)
NaN == <<"nan">>

Unbound == [ndim |-> 0, data |-> <<>>]

IsBound(arr) == arr.ndim # 0

NpFull1(n) == [ndim |-> 1, data |-> [i \in 1..n |-> NaN]]

NpFull2(n, k) == [ndim |-> 2, data |-> [i \in 1..n |-> [c \in 1..k |-> NaN]]]

\* curr_feature_arr[np.newaxis, :].T and curr_feature_arr[:, np.newaxis]
AsColumn(arr) == [ndim |-> 2, data |-> [i \in 1..Len(arr.data) |-> <<arr.data[i]>>]]

\* np.concatenate((a, b), axis=1) raises unless both arrays are 2-d
CanConcatenate(a, b) == a.ndim = 2 /\ b.ndim = 2 /\ Len(a.data) = Len(b.data)

Concatenate(a, b) ==
    [ndim |-> 2, data |-> [i \in 1..Len(a.data) |-> a.data[i] \o b.data[i]]]

(***************************************************************************)
(* The feature functions (external numeric library): what they return.     *)
(***************************************************************************)
FtrWidth(name) == IF name = "mean spectrum" THEN SpectrumWidth ELSE 1

FtrValue(name, seg, col) == <<name, seg, col>>

NoFtr == [kind |-> "unbound", val |-> <<>>]

\* single_syl_features_switch_case_dict[current_feature](syl)
SingleSylFeature(name, seg) ==
    IF name = "mean spectrum"
    THEN [kind |-> "vector", val |-> [c \in 1..FtrWidth(name) |-> FtrValue(name, seg, c)]]
    ELSE [kind |-> "scalar", val |-> <<FtrValue(name, seg, 1)>>]

\* multiple_syl_features_switch_case_dict[current_feature](onsets, offsets, syls_to_use)
MultipleSylFeature(name, segs) ==
    [ndim |-> 1, data |-> [i \in 1..Len(segs) |-> FtrValue(name, segs[i], 1)]]

IsScalar(f) == f.kind = "scalar"

VARIABLES
    song_labels,      \* song.labels: one label character per segment
    too_short,        \* per segment: too short to make a spectrogram
    labels_to_use,    \* the labels_to_use argument
    feature_list,     \* the feature_list argument
    pc,               \* "start", "loop", "done" or "raised"
    syls_to_use,      \* song.syls_to_use
    has_syls,         \* hasattr(song, 'syls')
    song_syls,        \* song.syls: the segment of each syllable
    ftr_ind,          \* number of request entries whose iteration was entered
    ftr,              \* the local ftr
    curr_feature_arr, \* the local curr_feature_arr
    features_arr,     \* the local features_arr
    feature_inds,     \* the local feature_inds (request positions from 0)
    spect_calls,      \* number of calls of song.make_syl_spects
    ftr_calls,        \* <<request position, segment>> of each feature call
    warnings,         \* number of warnings.warn calls
    exc,              \* the exception raised, "" if none
    result            \* what from_file returned

vars == <<song_labels, too_short, labels_to_use, feature_list, pc, syls_to_use,
          has_syls, song_syls, ftr_ind, ftr, curr_feature_arr, features_arr,
          feature_inds, spect_calls, ftr_calls, warnings, exc, result>>

inputs == <<song_labels, too_short, labels_to_use, feature_list>>

NoResult == [returned |-> FALSE, null |-> FALSE, matrix |-> Unbound,
             labels |-> <<>>, feature_inds |-> <<>>]

Init ==
    /\ song_labels \in SeqsUpTo(LabelChars, MaxSegs)
    /\ too_short \in [1..Len(song_labels) -> BOOLEAN]
    /\ labels_to_use \in LabelsToUseChoices
    /\ feature_list \in SeqsUpTo(FeatureNames, MaxFeatures)
    /\ pc = "start"
    /\ syls_to_use = <<>>
    /\ has_syls = FALSE
    /\ song_syls = <<>>
    /\ ftr_ind = 0
    /\ ftr = NoFtr
    /\ curr_feature_arr = Unbound
    /\ features_arr = Unbound
    /\ feature_inds = <<>>
    /\ spect_calls = 0
    /\ ftr_calls = {}
    /\ warnings = 0
    /\ exc = ""
    /\ result = NoResult

(***************************************************************************)
(* Song (hvc.audiofileIO).                                                 *)
(***************************************************************************)
\* Song.set_syls_to_use
SetSylsToUse(labels, to_use) ==
    [i \in 1..Len(labels) |->
        IF to_use = ALL THEN TRUE
        ELSE \E j \in 1..Len(to_use) : to_use[j] = labels[i]]

\* Song.make_syl_spects: one syllable per included segment, in segment order
MakeSylSpects(mask) ==
    LET F[i \in 0..Len(mask)] ==
            IF i = 0 THEN <<>>
            ELSE IF mask[i] THEN Append(F[i - 1], i) ELSE F[i - 1]
    IN F[Len(mask)]

\* np.all(song.syls_to_use == False)
NoSylsToUseAny(mask) == \E i \in 1..Len(mask) : mask[i] = FALSE

NoSylsToUse(mask) == \A i \in 1..Len(mask) : mask[i] = FALSE

\* not hasattr(song, 'syls')
NeedsSylSpectsAlways(has) == TRUE

NeedsSylSpects(has) == ~has

\* syl.spect is np.nan
SpectIsNanNever(seg) == FALSE

SpectIsNan(seg) == too_short[seg]

\* label in labels_to_use, on strings: a substring test
LabelInLabelsToUse(label, to_use) == \E j \in 1..Len(to_use) : to_use[j] = label

(***************************************************************************)
(* from_file, lines 99-106: build the song, set the mask, return nothing   *)
(* with one warning when no segment is included.                           *)
(***************************************************************************)
NoMatch ==
    /\ pc = "start"
    /\ LET mask == SetSylsToUse(song_labels, labels_to_use) IN
        /\ NoSylsToUse(mask)
        /\ syls_to_use' = mask
    /\ warnings' = warnings + 1
    /\ result' = [NoResult EXCEPT !.returned = TRUE, !.null = TRUE]
    /\ pc' = "done"
    /\ UNCHANGED <<inputs, has_syls, song_syls, ftr_ind, ftr, curr_feature_arr,
                   features_arr, feature_inds, spect_calls, ftr_calls, exc>>

EnterLoop ==
    /\ pc = "start"
    /\ LET mask == SetSylsToUse(song_labels, labels_to_use) IN
        /\ ~NoSylsToUse(mask)
        /\ syls_to_use' = mask
    /\ pc' = "loop"
    /\ UNCHANGED <<inputs, has_syls, song_syls, ftr_ind, ftr, curr_feature_arr,
                   features_arr, feature_inds, spect_calls, ftr_calls, warnings,
                   exc, result>>

(***************************************************************************)
(* Lines 123-155: the loop over song.syls for one single-syllable feature. *)
(* st holds the locals curr_feature_arr and ftr and the calls made so far. *)
(***************************************************************************)
\* curr_feature_arr[ind] = ftr, or curr_feature_arr[ind, :] = ftr[np.newaxis, :]
SetRow(arr, ind, f) ==
    [arr EXCEPT !.data[ind] = IF IsScalar(f) THEN f.val[1] ELSE f.val]

\* lines 145-155: the array a feature's first value allocates
NewFeatureArr(n, f) ==
    IF IsScalar(f) THEN NpFull1(n) ELSE NpFull2(n, Len(f.val))

RECURSIVE SylLoop(_, _, _, _, _)
SylLoop(name, pos, syls, ind, st) ==
    IF ind > Len(syls) THEN st
    ELSE IF SpectIsNan(syls[ind]) THEN SylLoop(name, pos, syls, ind + 1, st)
    ELSE LET f == SingleSylFeature(name, syls[ind])
             arr == IF IsBound(st.curr) THEN st.curr
                    ELSE NewFeatureArr(Len(syls), f)
         IN SylLoop(name, pos, syls, ind + 1,
                    [curr |-> SetRow(arr, ind, f),
                     ftr |-> f,
                     calls |-> st.calls \cup {<<pos, syls[ind]>>}])

(***************************************************************************)
(* Lines 158-179: add the feature's columns to features_arr.  The result   *)
(* is the new features_arr and feature_inds, or the exception raised.      *)
(***************************************************************************)
Raise(e, inds) == [exc |-> e, arr |-> Unbound, inds |-> inds]

Ok(arr, inds) == [exc |-> "", arr |-> arr, inds |-> inds]

Repeat(x, n) == [i \in 1..n |-> x]

AddSingleSyl(farr, inds, f, curr, pos) ==
    IF f.kind = "unbound" THEN Raise("UnboundLocalError", inds)
    ELSE LET inds2 == inds \o (IF IsScalar(f) THEN <<pos>>
                                ELSE Repeat(pos, Len(f.val)))
         IN IF ~IsBound(curr) THEN Raise("UnboundLocalError", inds2)
            ELSE IF IsBound(farr)
            THEN LET cols == IF IsScalar(f) THEN AsColumn(curr) ELSE curr
                 IN IF CanConcatenate(farr, cols)
                    THEN Ok(Concatenate(farr, cols), inds2)
                    ELSE Raise("ValueError", inds2)
            ELSE Ok(curr, inds2)

\* lines 185-191
AddMultipleSyl(farr, inds, curr, pos) ==
    LET inds2 == Append(inds, pos)
    IN IF IsBound(farr)
       THEN IF CanConcatenate(farr, AsColumn(curr))
            THEN Ok(Concatenate(farr, AsColumn(curr)), inds2)
            ELSE Raise("ValueError", inds2)
       ELSE Ok(curr, inds2)

current_feature == feature_list[ftr_ind + 1]

InLoop == pc = "loop" /\ ftr_ind < Len(feature_list)

\* lines 117-179: one iteration for a single-syllable feature
SingleSylIteration ==
    /\ InLoop
    /\ current_feature \in single_syl_features_switch_case_dict
    /\ LET make == NeedsSylSpects(has_syls)
           syls == IF make THEN MakeSylSpects(syls_to_use) ELSE song_syls
           st == SylLoop(current_feature, ftr_ind, syls, 1,
                         [curr |-> Unbound, ftr |-> ftr, calls |-> ftr_calls])
           r == AddSingleSyl(features_arr, feature_inds, st.ftr, st.curr, ftr_ind)
       IN /\ has_syls' = TRUE
          /\ song_syls' = syls
          /\ spect_calls' = IF make THEN spect_calls + 1 ELSE spect_calls
          /\ curr_feature_arr' = st.curr
          /\ ftr' = st.ftr
          /\ ftr_calls' = st.calls
          /\ feature_inds' = r.inds
          /\ exc' = r.exc
          /\ features_arr' = IF r.exc = "" THEN r.arr ELSE features_arr
          /\ pc' = IF r.exc = "" THEN "loop" ELSE "raised"
    /\ ftr_ind' = ftr_ind + 1
    /\ UNCHANGED <<inputs, syls_to_use, warnings, result>>

\* lines 181-191: one iteration for a group feature
MultipleSylIteration ==
    /\ InLoop
    /\ current_feature \in multiple_syl_features_switch_case_dict
    /\ current_feature \notin single_syl_features_switch_case_dict
    /\ LET curr == MultipleSylFeature(current_feature, MakeSylSpects(syls_to_use))
           r == AddMultipleSyl(features_arr, feature_inds, curr, ftr_ind)
       IN /\ curr_feature_arr' = curr
          /\ feature_inds' = r.inds
          /\ exc' = r.exc
          /\ features_arr' = IF r.exc = "" THEN r.arr ELSE features_arr
          /\ pc' = IF r.exc = "" THEN "loop" ELSE "raised"
    /\ ftr_ind' = ftr_ind + 1
    /\ UNCHANGED <<inputs, syls_to_use, has_syls, song_syls, ftr, spect_calls,
                   ftr_calls, warnings, result>>

\* lines 114-181: a name in neither dict: the iteration does nothing
UnknownIteration ==
    /\ InLoop
    /\ current_feature \notin single_syl_features_switch_case_dict
    /\ current_feature \notin multiple_syl_features_switch_case_dict
    /\ ftr_ind' = ftr_ind + 1
    /\ UNCHANGED <<inputs, pc, syls_to_use, has_syls, song_syls, ftr,
                   curr_feature_arr, features_arr, feature_inds, spect_calls,
                   ftr_calls, warnings, exc, result>>

\* line 192
LabelsOf(labels, to_use) ==
    LET F[i \in 0..Len(labels)] ==
            IF i = 0 THEN <<>>
            ELSE IF LabelInLabelsToUse(labels[i], to_use)
                 THEN Append(F[i - 1], labels[i]) ELSE F[i - 1]
    IN F[Len(labels)]

\* lines 192-193
Return ==
    /\ pc = "loop"
    /\ ftr_ind = Len(feature_list)
    /\ IF IsBound(features_arr)
       THEN /\ result' = [returned |-> TRUE, null |-> FALSE,
                          matrix |-> features_arr,
                          labels |-> LabelsOf(song_labels, labels_to_use),
                          feature_inds |-> feature_inds]
            /\ pc' = "done"
            /\ exc' = exc
       ELSE /\ result' = result
            /\ pc' = "raised"
            /\ exc' = "UnboundLocalError"
    /\ UNCHANGED <<inputs, syls_to_use, has_syls, song_syls, ftr_ind, ftr,
                   curr_feature_arr, features_arr, feature_inds, spect_calls,
                   ftr_calls, warnings>>

Next ==
    \/ NoMatch
    \/ EnterLoop
    \/ SingleSylIteration
    \/ MultipleSylIteration
    \/ UnknownIteration
    \/ Return

Spec == Init /\ [][Next]_vars

(***************************************************************************)
(* Vocabulary of the properties.                                           *)
(***************************************************************************)
Started == pc # "start"

Returned == pc = "done" /\ ~result.null

\* the included segments, in segment order, read off the mask
IncludedSegs ==
    LET F[i \in 0..Len(syls_to_use)] ==
            IF i = 0 THEN <<>>
            ELSE IF syls_to_use[i] THEN Append(F[i - 1], i) ELSE F[i - 1]
    IN F[Len(syls_to_use)]

NumIncluded == Cardinality({i \in 1..Len(syls_to_use) : syls_to_use[i]})

SomeIncluded == Started /\ NumIncluded >= 1

IsSingle(name) == name \in single_syl_features_switch_case_dict

IsGroup(name) == ~IsSingle(name) /\ name \in multiple_syl_features_switch_case_dict

Resolves(name) == IsSingle(name) \/ IsGroup(name)

Positions == 1..Len(feature_list)

NumRows(arr) == Len(arr.data)

NumCols(arr) == Len(arr.data[1])

\* entry (i, j) of an array; a 1-d array is read as its single sequence
Entry(arr, i, j) == IF arr.ndim = 2 THEN arr.data[i][j] ELSE arr.data[i]

Width(arr) == IF arr.ndim = 2 THEN NumCols(arr) ELSE 1

\* the value that belongs in row i of column j when column j is listed under
\* request position inds[j]
FirstCol(inds, j) == CHOOSE k \in 1..j : inds[k] = inds[j] /\ \A m \in 1..(k - 1) : inds[m] # inds[j]

ExpectedEntry(inds, i, j) ==
    LET name == feature_list[inds[j] + 1]
        seg == IncludedSegs[i]
    IN IF IsSingle(name) /\ too_short[seg] THEN NaN
       ELSE FtrValue(name, seg, j - FirstCol(inds, j) + 1)

ColumnsAsExpected(arr, inds) ==
    /\ NumRows(arr) = NumIncluded
    /\ Len(inds) = Width(arr)
    /\ \A j \in 1..Len(inds) :
          /\ inds[j] + 1 \in Positions
          /\ Resolves(feature_list[inds[j] + 1])
          /\ \A i \in 1..NumRows(arr) : Entry(arr, i, j) = ExpectedEntry(inds, i, j)

ScalarRange(n) == [j \in 1..n |-> j - 1]

\* every included syllable has a spectrogram
AllAvailable == \A i \in 1..NumIncluded : ~too_short[IncludedSegs[i]]

(***************************************************************************)
(* C1: on a non-null return the labels are the labels of the included      *)
(* segments, in segment order, as many as the mask has true entries and as *)
(* the matrix has rows; for a label string and for 'all'.                  *)
(***************************************************************************)
C1_LabelsFollowMask ==
    Returned =>
        /\ result.labels = [i \in 1..NumIncluded |-> song_labels[IncludedSegs[i]]]
        /\ Len(result.labels) = NumIncluded
        /\ Len(result.labels) = NumRows(result.matrix)

(***************************************************************************)
(* C2: a request of F >= 1 scalar single-syllable features over a          *)
(* recording with an included syllable returns a 2-d matrix of shape       *)
(* (included syllables, F) and the feature index 0 .. F-1.  Stated for the *)
(* recordings whose included syllables all have a spectrogram, where the   *)
(* claim owes nothing to the handling of too-short segments.               *)
(***************************************************************************)
ScalarRequest ==
    /\ Len(feature_list) >= 1
    /\ \A p \in Positions : feature_list[p] = "duration"

C2_ScalarRequestShape ==
    (ScalarRequest /\ SomeIncluded /\ AllAvailable) =>
        /\ pc # "raised"
        /\ pc = "done" =>
              /\ ~result.null
              /\ result.matrix.ndim = 2
              /\ NumRows(result.matrix) = NumIncluded
              /\ NumCols(result.matrix) = Len(feature_list)
              /\ result.feature_inds = ScalarRange(Len(feature_list))

(***************************************************************************)
(* C3: one scalar feature followed by one vector feature of width K gives  *)
(* a matrix of 1 + K columns and the feature index [0] + [1] * K.  Stated  *)
(* for the recordings whose included syllables all have a spectrogram.     *)
(***************************************************************************)
C3_ScalarThenVector ==
    (feature_list = <<"duration", "mean spectrum">> /\ SomeIncluded /\ AllAvailable) =>
        /\ pc # "raised"
        /\ pc = "done" =>
              /\ ~result.null
              /\ result.matrix.ndim = 2
              /\ NumCols(result.matrix) = 1 + SpectrumWidth
              /\ result.feature_inds = <<0>> \o Repeat(1, SpectrumWidth)

(***************************************************************************)
(* C4: when no segment is included (a recording without segments too) the  *)
(* call returns the null triple with exactly one warning, before any       *)
(* spectrogram is made and before any feature function is called.          *)
(***************************************************************************)
C4_NoMatchReturnsNull ==
    (Started /\ NumIncluded = 0) =>
        /\ pc = "done"
        /\ result.returned /\ result.null
        /\ warnings = 1
        /\ spect_calls = 0 /\ ~has_syls
        /\ ftr_calls = {} /\ ftr_ind = 0
        /\ ~IsBound(features_arr)

C4_Witness ==
    /\ pc = "done" /\ result.null /\ warnings = 1
    /\ Len(song_labels) = MaxSegs
    /\ Len(feature_list) >= 1

(***************************************************************************)
(* C5: for a single-syllable feature over a recording whose included       *)
(* syllables are partly without a spectrogram (in any position) and partly *)
(* with one, the feature function is called on the available syllables     *)
(* only, the rows of the others hold NaN in every column of the feature    *)
(* and the rows of the available ones hold the value the function gave.    *)
(***************************************************************************)
Mixed ==
    /\ \E i \in 1..NumIncluded : too_short[IncludedSegs[i]]
    /\ \E i \in 1..NumIncluded : ~too_short[IncludedSegs[i]]

ExpectedRow(name, seg) ==
    IF too_short[seg]
    THEN (IF FtrWidth(name) = 1 /\ name # "mean spectrum" THEN NaN
          ELSE Repeat(NaN, FtrWidth(name)))
    ELSE (IF FtrWidth(name) = 1 /\ name # "mean spectrum" THEN FtrValue(name, seg, 1)
          ELSE [c \in 1..FtrWidth(name) |-> FtrValue(name, seg, c)])

CataloguedRequest ==
    /\ Len(feature_list) >= 1
    /\ \A p \in Positions : Resolves(feature_list[p])

C6_TooShortNeverFatal ==
    (CataloguedRequest /\ SomeIncluded) =>
        /\ pc # "raised"
        /\ pc = "done" =>
              /\ ~result.null
              /\ ColumnsAsExpected(result.matrix, result.feature_inds)

(***************************************************************************)
(* C7: a request of group features only never makes spectrograms and       *)
(* yields one non-NaN value per included syllable for each group feature,  *)
(* also when every segment is too short for a spectrogram.                 *)
(***************************************************************************)
GroupRequest ==
    /\ Len(feature_list) >= 1
    /\ \A p \in Positions : IsGroup(feature_list[p])

C7_GroupOnlyNoSpectrograms ==
    (GroupRequest /\ SomeIncluded) =>
        /\ spect_calls = 0 /\ ~has_syls
        /\ pc # "raised"
        /\ pc = "done" =>
              /\ ~result.null
              /\ NumRows(result.matrix) = NumIncluded
              /\ Width(result.matrix) = Len(feature_list)
              /\ \A i \in 1..NumRows(result.matrix) :
                    \A j \in 1..Width(result.matrix) :
                        Entry(result.matrix, i, j) # NaN

(***************************************************************************)
(* C8: after a non-null return the feature index has one entry per matrix  *)
(* column, entry j being the request position of the feature that made     *)
(* column j: one entry for a scalar or group feature, K equal consecutive  *)
(* entries for a K-wide vector feature, non-decreasing in column order.    *)
(***************************************************************************)
C8_FeatureIndexPerColumn ==
    Returned =>
        /\ result.matrix.ndim = 2
        /\ Len(result.feature_inds) = NumCols(result.matrix)
        /\ ColumnsAsExpected(result.matrix, result.feature_inds)
        /\ \A j \in 1..(Len(result.feature_inds) - 1) :
              result.feature_inds[j] <= result.feature_inds[j + 1]
        /\ \A p \in Positions : Resolves(feature_list[p]) =>
              Cardinality({j \in 1..Len(result.feature_inds) :
                              result.feature_inds[j] = p - 1})
                  = FtrWidth(feature_list[p])

(***************************************************************************)
(* C9: a name in neither catalogue is skipped silently: it adds no column  *)
(* and no index entry and raises nothing, so that the feature index of the *)
(* call has as many distinct values as the request has resolving entries.  *)
(***************************************************************************)
UnknownOnlySoFar ==
    /\ pc # "start"
    /\ ftr_ind >= 1
    /\ \A p \in 1..ftr_ind : ~Resolves(feature_list[p])

NumResolving == Cardinality({p \in Positions : Resolves(feature_list[p])})

C9_UnknownSkippedSilently ==
    /\ UnknownOnlySoFar =>
          /\ pc # "raised"
          /\ ~IsBound(features_arr)
          /\ feature_inds = <<>>
    /\ (pc = "done" /\ SomeIncluded) =>
          /\ ~result.null
          /\ Cardinality({result.feature_inds[j] : j \in 1..Len(result.feature_inds)})
                = NumResolving

(***************************************************************************)
(* C10: within one call make_syl_spects is called exactly once, in the     *)
(* iteration of the first single-syllable feature of the request, never    *)
(* again for later ones, and not at all when no single-syllable feature    *)
(* has been reached.                                                       *)
(***************************************************************************)
C10_SpectrogramsMadeOnce ==
    LET reached == \E p \in 1..ftr_ind : IsSingle(feature_list[p])
    IN /\ spect_calls = (IF reached THEN 1 ELSE 0)
       /\ has_syls = reached
       /\ has_syls => song_syls = IncludedSegs

C10_Witness ==
    /\ pc = "done"
    /\ spect_calls = 1
    /\ Cardinality({p \in Positions : IsSingle(feature_list[p])}) >= 2
    /\ \E p \in Positions : IsGroup(feature_list[p]) /\ p > 1

=============================================================================
